---- MODULE Spec2Model ----
(***************************************************************************)
(* Master/worker job orchestration of MLSManager: the job store and its    *)
(* lifecycle (backend/app/services/job_service.py, endpoints/jobs.py),     *)
(* the scheduler (assign_job_to_node, auto_assign_pending_jobs), the node  *)
(* registry (endpoints/nodes.py) and the monitors (tasks/scheduler.py).    *)
(*                                                                         *)
(* Every request handler runs in its own database session.  A handler     *)
(* whose body has no await between its read and its commit is one action; *)
(* auto_assign_pending_jobs awaits the database once per statement, so it *)
(* is one action per statement and other handlers interleave with it.     *)
(***************************************************************************)
EXTENDS Integers, Sequences, FiniteSets, TLC

\* ------------------------------------------------------------------ bounds
MaxNodes == 2     \* rows of the nodes table
MaxCap == 1       \* largest capacity / resource request
MaxTicks == 2     \* clock ticks
LifeJobs == 1     \* jobs followed through their lifecycle
BalanceJobs == 4  \* jobs submitted while the load is balanced
MonitorJobs == 2  \* jobs in the table when the job monitor runs
MaxRuns == 2      \* child processes the agent starts

\* --------------------------------------------------------- program values
NULL == 0 - 1     \* Python None / SQL NULL of an optional integer column
NoMsg == "none"   \* error_message IS NULL

JobTimeout == 7200                 \* check_stale_jobs(timeout_seconds=7200)
TickSecs == JobTimeout             \* seconds per clock tick of the model

PENDING == "pending"
QUEUED == "queued"
RUNNING == "running"
COMPLETED == "completed"
FAILED == "failed"
CANCELLED == "cancelled"
JobStatus == {PENDING, QUEUED, RUNNING, COMPLETED, FAILED, CANCELLED}
TerminalStatus == {COMPLETED, FAILED, CANCELLED}

ONLINE == "online"
OFFLINE == "offline"
MAINTENANCE == "maintenance"
NodeStatus == {ONLINE, OFFLINE, MAINTENANCE}

Passes == {1, 2}                   \* concurrent auto-assign requests

VARIABLES
    nodes,      \* nodes table: sequence of rows, index = Node.id
    jobs,       \* jobs table: sequence of rows, index = Job.id, in created_at order
    now,        \* wall clock, seconds
    pass,       \* per auto-assign request: its position and local variables
    placed,     \* per auto-assign request: jobs it has written in this invocation
    reg,        \* per register call in flight: its arguments and what it read
    monitor,    \* the node monitor and the job monitor: position, rows the query returned
    http,       \* the last agent or cancel request: its token, its node, its answer
    tasks,      \* the background tasks: shutdown event, task list, position of each loop
    agent       \* the worker agent process: its client, its position, its child processes

vars == <<nodes, jobs, now, pass, placed, reg, monitor, http, tasks, agent>>

\* ------------------------------------------------------------------ helpers
RECURSIVE Ascending(_)
Ascending(S) ==
    IF S = {} THEN <<>>
    ELSE LET m == CHOOSE x \in S : \A y \in S : x <= y
         IN <<m>> \o Ascending(S \ {m})

\* Python truthiness of an optional integer: None and 0 are false.
Truthy(x) == x # NULL /\ x # 0

\* SQL "a >= b": NULL on either side is not true.
SqlGe(a, b) == a # NULL /\ b # NULL /\ a >= b

\* variant: the comparison admits equality
SqlLe(a, b) == a # NULL /\ b # NULL /\ a <= b

\* SQL "a < b": NULL on either side is not true.
SqlLt(a, b) == a # NULL /\ b # NULL /\ a < b

\* The UPDATE that commit() flushes carries the columns whose assigned value
\* differs from the value the session loaded; the others keep what is stored.
Flushed(assigned, loaded, stored) == IF assigned # loaded THEN assigned ELSE stored

\* ------------------------------------------------------------------ rows
NewJob(pin, cpu, mem, gpu) ==
    [status |-> PENDING, node_id |-> pin,
     cpu_limit |-> cpu, memory_limit_gb |-> mem, gpu_count |-> gpu,
     exit_code |-> NULL, error_message |-> NoMsg,
     started_at |-> NULL, completed_at |-> NULL]

NodeRow(st, act, cpu, mem, gpu, beat) ==
    [status |-> st, is_active |-> act,
     cpu_count |-> cpu, memory_total_gb |-> mem, gpu_count |-> gpu,
     last_heartbeat |-> beat]

JobIds == DOMAIN jobs
NodeIds == DOMAIN nodes

\* ------------------------------------------------------------ the scheduler
\* WHERE Node.status == 'online' AND Node.is_active IS TRUE
Eligible(node) == node.status = ONLINE /\ node.is_active

\* variant: a node whose GPU count is unknown passes the filter
GpuFilterUnknownPasses(node, job) ==
    (Truthy(job.gpu_count) /\ job.gpu_count > 0) =>
        (node.gpu_count = NULL \/ node.gpu_count >= job.gpu_count)

GpuFilter(node, job) ==
    (Truthy(job.gpu_count) /\ job.gpu_count > 0) => SqlGe(node.gpu_count, job.gpu_count)

MemoryFilter(node, job) ==
    Truthy(job.memory_limit_gb) => SqlGe(node.memory_total_gb, job.memory_limit_gb)

CpuFilter(node, job) ==
    Truthy(job.cpu_limit) => SqlGe(node.cpu_count, job.cpu_limit)

\* The candidate query of assign_job_to_node, rows in primary-key order.
Candidates(job) ==
    Ascending({n \in NodeIds :
        /\ Eligible(nodes[n])
        /\ GpuFilter(nodes[n], job)
        /\ MemoryFilter(nodes[n], job)
        /\ CpuFilter(nodes[n], job)})

\* SELECT count(Job.id) WHERE Job.node_id == node.id AND Job.status == 'running'
RunningJobs(n) ==
    Cardinality({j \in JobIds : jobs[j].node_id = n /\ jobs[j].status = RUNNING})

\* float("inf"): above every count the jobs table can give
Inf == LifeJobs + BalanceJobs + 10

\* variant: the loop keeps the first candidate it reads
BetterFirst(running_jobs, min_jobs) == min_jobs = Inf

\* if running_jobs < min_jobs
Better(running_jobs, min_jobs) == running_jobs < min_jobs

\* SELECT Job WHERE status == 'pending' ORDER BY created_at
PendingJobs == Ascending({j \in JobIds : jobs[j].status = PENDING})

\* pc: "idle" before the request, "query" / "count" / "commit" inside
\* assign_job_to_node, "returned" once auto_assign_pending_jobs has returned
\* assigned_count.  seen records, per candidate, the count the loop read.
IdlePass == [pc |-> "idle", pending |-> <<>>, cands |-> <<>>, seen |-> <<>>,
             best_node |-> NULL, min_jobs |-> Inf, assigned_count |-> 0]

\* if node: assigned_count += 1
\* variant: the pass counts every job it tried
CountedAlways(node, count) == count + 1

Counted(node, count) == IF node # NULL THEN count + 1 ELSE count

\* the for loop of auto_assign_pending_jobs moves to its next job, or returns
NextJob(ps, count) ==
    LET rest == Tail(ps.pending)
    IN [pc |-> IF rest = <<>> THEN "returned" ELSE "query", pending |-> rest,
        cands |-> <<>>, seen |-> <<>>, best_node |-> NULL, min_jobs |-> Inf,
        assigned_count |-> count]

\* auto_assign_pending_jobs: the query for the pending jobs
AutoAssignStart(p) ==
    /\ pass[p].pc \in {"idle", "returned"}
    /\ pass' = [pass EXCEPT ![p] =
            [IdlePass EXCEPT !.pc = IF PendingJobs = <<>> THEN "returned" ELSE "query",
                             !.pending = PendingJobs]]
    /\ placed' = [placed EXCEPT ![p] = {}]
    /\ UNCHANGED <<nodes, jobs, now, reg, monitor, http, tasks, agent>>

\* assign_job_to_node: the candidate query; no candidate returns None
AssignQuery(p) ==
    /\ pass[p].pc = "query"
    /\ LET c == Candidates(jobs[Head(pass[p].pending)])
       IN pass' = [pass EXCEPT ![p] =
            IF c = <<>> THEN NextJob(@, Counted(NULL, @.assigned_count))
            ELSE [@ EXCEPT !.pc = "count", !.cands = c,
                           !.best_node = NULL, !.min_jobs = Inf]]
    /\ UNCHANGED <<nodes, jobs, now, placed, reg, monitor, http, tasks, agent>>

\* assign_job_to_node: one iteration of the load-balancing loop
AssignCount(p) ==
    /\ pass[p].pc = "count"
    /\ LET node == Head(pass[p].cands)
           running_jobs == RunningJobs(node)
           rest == Tail(pass[p].cands)
           better == Better(running_jobs, pass[p].min_jobs)
       IN pass' = [pass EXCEPT ![p] =
            [@ EXCEPT !.cands = rest,
                      !.seen = Append(@, <<node, Cardinality({j \in JobIds :
                                  jobs[j].node_id = node /\ jobs[j].status = RUNNING})>>),
                      !.min_jobs = IF better THEN running_jobs ELSE @,
                      !.best_node = IF better THEN node ELSE @,
                      !.pc = IF rest = <<>> THEN "commit" ELSE "count"]]
    /\ UNCHANGED <<nodes, jobs, now, placed, reg, monitor, http, tasks, agent>>

\* assign_job_to_node: if best_node, write node_id and status, commit
AssignCommit(p) ==
    /\ pass[p].pc = "commit"
    /\ LET j == Head(pass[p].pending)
           best == pass[p].best_node
       IN IF best # NULL
          THEN /\ jobs' = [jobs EXCEPT ![j] =
                        [@ EXCEPT !.node_id = best, !.status = QUEUED]]
               /\ placed' = [placed EXCEPT ![p] = @ \cup {j}]
               /\ pass' = [pass EXCEPT ![p] = NextJob(@, Counted(best, @.assigned_count))]
          ELSE /\ pass' = [pass EXCEPT ![p] = NextJob(@, Counted(best, @.assigned_count))]
               /\ UNCHANGED <<jobs, placed>>
    /\ UNCHANGED <<nodes, now, reg, monitor, http, tasks, agent>>

\* -------------------------------------------------------------- job handlers
\* POST /jobs/: create_job; a pinned node must exist
CreateJob(pin, cpu, mem, gpu) ==
    /\ pin = NULL \/ pin \in NodeIds
    /\ jobs' = Append(jobs, NewJob(pin, cpu, mem, gpu))
    /\ UNCHANGED <<nodes, now, pass, placed, reg, monitor, http, tasks, agent>>

\* variant: the report sets the status and the agent's fields, no timestamp
UpdateJobStatusUnstamped(j, status, exit_code, error_message) ==
    /\ j \in JobIds
    /\ jobs' = [jobs EXCEPT ![j] =
            [@ EXCEPT
                !.status = status,
                !.exit_code = IF exit_code # NULL THEN exit_code ELSE @,
                !.error_message = IF error_message # NoMsg THEN error_message ELSE @]]
    /\ UNCHANGED <<nodes, now, pass, placed, reg, monitor>>

\* JobService.update_job_status, reached by POST /jobs/{job_id}/status
UpdateJobStatus(j, status, exit_code, error_message) ==
    /\ j \in JobIds
    /\ jobs' = [jobs EXCEPT ![j] =
            [@ EXCEPT
                !.status = status,
                !.started_at = IF status = RUNNING /\ @ = NULL THEN now ELSE @,
                !.completed_at = IF status \in TerminalStatus THEN now ELSE @,
                !.exit_code = IF exit_code # NULL THEN exit_code ELSE @,
                !.error_message = IF error_message # NoMsg THEN error_message ELSE @]]
    /\ UNCHANGED <<nodes, now, pass, placed, reg, monitor>>

\* PATCH /jobs/{job_id}: update_job, the fields set in the request are copied
UpdateJob(j, setStatus, status, setNode, node_id) ==
    /\ j \in JobIds
    /\ setStatus \/ setNode
    /\ jobs' = [jobs EXCEPT ![j] =
            [@ EXCEPT !.status = IF setStatus THEN status ELSE @,
                      !.node_id = IF setNode THEN node_id ELSE @]]
    /\ UNCHANGED <<nodes, now, pass, placed, reg, monitor, http, tasks, agent>>

\* variant: cancel_job does not look at the status
CancelJobAnyStatus(j) ==
    /\ j \in JobIds
    /\ jobs' = [jobs EXCEPT ![j] = [@ EXCEPT !.status = CANCELLED]]
    /\ UNCHANGED <<nodes, now, pass, placed, reg, monitor>>

\* POST /jobs/{job_id}/cancel: cancel_job; a terminal job answers 400
CancelJob(j) ==
    /\ j \in JobIds
    /\ jobs[j].status \notin TerminalStatus
    /\ jobs' = [jobs EXCEPT ![j] = [@ EXCEPT !.status = CANCELLED]]
    /\ UNCHANGED <<nodes, now, pass, placed, reg, monitor>>

TimeoutMsg == "timeout"

\* check_stale_jobs(timeout_seconds=7200), run by _job_monitor_loop: a SELECT
\* of the stale jobs, the loop over them, an await, then the commit.
StaleJobs == {j \in JobIds : jobs[j].status = RUNNING
                             /\ SqlLt(jobs[j].started_at, now - JobTimeout)}

\* the query has returned and the loop has given every job it read its new
\* status, error message and completion time
StaleSelect ==
    /\ monitor.jobs.pc \in {"idle", "returned"}
    /\ monitor' = [monitor EXCEPT !.jobs =
            [pc |-> "selected", at |-> now,
             stale_jobs |-> [j \in StaleJobs |-> jobs[j]]]]
    /\ UNCHANGED <<nodes, jobs, now, pass, placed, reg, http, tasks, agent>>

\* if count > 0: commit; return count
StaleCommit ==
    /\ monitor.jobs.pc = "selected"
    /\ LET run == monitor.jobs
           loaded == run.stale_jobs
       IN /\ jobs' = [j \in JobIds |->
                IF j \in DOMAIN loaded
                THEN [jobs[j] EXCEPT
                        !.status = Flushed(FAILED, loaded[j].status, @),
                        !.error_message = Flushed(TimeoutMsg, loaded[j].error_message, @),
                        !.completed_at = Flushed(run.at, loaded[j].completed_at, @)]
                ELSE jobs[j]]
          /\ monitor' = [monitor EXCEPT !.jobs =
                [pc |-> "returned", count |-> Cardinality(DOMAIN loaded)]]
    /\ UNCHANGED <<nodes, now, pass, placed, reg, http, tasks, agent>>

CheckStaleJobs ==
    \/ StaleSelect
    \/ StaleCommit

\* ------------------------------------------------------------- node handlers
\* PATCH /nodes/{node_id}: update_node (admin), status and is_active
UpdateNode(n, setStatus, status, setActive, is_active) ==
    /\ n \in NodeIds
    /\ setStatus \/ setActive
    /\ nodes' = [nodes EXCEPT ![n] =
            [@ EXCEPT !.status = IF setStatus THEN status ELSE @,
                      !.is_active = IF setActive THEN is_active ELSE @]]
    /\ UNCHANGED <<jobs, now, pass, placed, reg, monitor, http, tasks, agent>>

\* POST /nodes/{node_id}/heartbeat: node_heartbeat stores the reported status,
\* the time, and the capacity fields that are not None
NodeHeartbeat(n, status, cpu, mem, gpu) ==
    /\ n \in NodeIds
    /\ nodes' = [nodes EXCEPT ![n] =
            [@ EXCEPT !.status = status,
                      !.last_heartbeat = now,
                      !.cpu_count = IF cpu # NULL THEN cpu ELSE @,
                      !.memory_total_gb = IF mem # NULL THEN mem ELSE @,
                      !.gpu_count = IF gpu # NULL THEN gpu ELSE @]]
    /\ UNCHANGED <<jobs, now, pass, placed, reg, monitor, http, tasks, agent>>

\* the clock advances
Tick ==
    /\ now < MaxTicks * TickSecs
    /\ now' = now + TickSecs
    /\ UNCHANGED <<nodes, jobs, pass, placed, reg, monitor, http, tasks, agent>>

\* ------------------------------------------------------------------ inputs
Resources == {"cpu", "mem", "gpu"}
CapVals == {NULL} \cup (0..MaxCap)

\* what an agent reports: running, completed with exit code 0, failed with an error
AgentReports == {[status |-> RUNNING, exit_code |-> NULL, error_message |-> NoMsg],
                 [status |-> COMPLETED, exit_code |-> 0, error_message |-> NoMsg],
                 [status |-> FAILED, exit_code |-> 1, error_message |-> "error"]}

\* every status the JobStatusUpdate schema accepts, with the agent's fields
StatusReports == AgentReports \cup
    {[status |-> s, exit_code |-> NULL, error_message |-> NoMsg] :
        s \in {PENDING, QUEUED, CANCELLED}}

\* a worker after register_node: online, active, its capacity reported
FullNode == NodeRow(ONLINE, TRUE, MaxCap, MaxCap, MaxCap, 0)

NoPass == [p \in Passes |-> IdlePass]

\* concurrent POST /nodes/register requests
Callers == {1, 2}

\* no register call in flight
NoCall == [pc |-> "idle"]
NoCalls == [c \in Callers |-> NoCall]

\* the node monitor sleeps between two runs
Idle == [pc |-> "idle"]

\* the node monitor and the job monitor, both between two runs
Asleep == [nodes |-> Idle, jobs |-> Idle]

\* a request without the X-Agent-Token header
NoToken == [node_id |-> "", type |-> "absent", exp |-> 0, signed |-> FALSE]

\* no agent or cancel request was made yet
NoRequest == [token |-> NoToken, node |-> NULL, code |-> 0]
NonePlaced == [p \in Passes |-> {}]

\* the two monitor loops, in the order start_background_tasks creates them
Loops == {"nodes", "jobs"}
TaskOrder == <<"nodes", "jobs">>

\* before start_background_tasks: no event, no task
NoTasks == [event |-> "none", list |-> <<>>,
            loop |-> [L \in Loops |-> [pc |-> "none", cancel |-> FALSE, failed |-> FALSE]],
            stop |-> [pc |-> "idle"]]

\* no agent process
NoAgent == [pc |-> "none"]

Scheduler(p) ==
    \/ AutoAssignStart(p)
    \/ AssignQuery(p)
    \/ AssignCount(p)
    \/ AssignCommit(p)

\* ------------------------------------------------------------ job lifecycle
\* One job through every handler that writes it, the scheduler included.
\* The registry holds MaxNodes registered workers; the jobs table is empty.
Init ==
    /\ nodes = [n \in 1..MaxNodes |-> FullNode]
    /\ jobs = <<>>
    /\ now = 0
    /\ pass = NoPass
    /\ placed = NonePlaced
    /\ reg = NoCalls
    /\ monitor = Asleep
    /\ http = NoRequest
    /\ tasks = NoTasks
    /\ agent = NoAgent

Create ==
    /\ Len(jobs) < LifeJobs
    /\ \E pin \in {NULL} \cup NodeIds : CreateJob(pin, NULL, NULL, NULL)

Report == \E j \in JobIds, r \in StatusReports :
            /\ UpdateJobStatus(j, r.status, r.exit_code, r.error_message)
            /\ UNCHANGED <<http, tasks, agent>>

Patch == \E j \in JobIds, s \in JobStatus : UpdateJob(j, TRUE, s, FALSE, NULL)

Cancel == \E j \in JobIds : CancelJob(j) /\ UNCHANGED <<http, tasks, agent>>

Next ==
    \/ Create
    \/ Report
    \/ Patch
    \/ Cancel
    \/ CheckStaleJobs
    \/ Tick
    \/ Scheduler(1)

Spec == Init /\ [][Next]_vars

\* The edges of the job state machine: PENDING -> QUEUED -> RUNNING ->
\* {COMPLETED, FAILED, CANCELLED}, and the cancel of a PENDING job.
StateMachine ==
    {<<PENDING, QUEUED>>, <<QUEUED, RUNNING>>, <<RUNNING, COMPLETED>>,
     <<RUNNING, FAILED>>, <<RUNNING, CANCELLED>>, <<PENDING, CANCELLED>>}

\* jobs that exist before and after a step
Kept == JobIds \cap DOMAIN jobs'

\* C1: every write of a job's status by any handler follows an edge of the
\* state machine; a request for any other transition leaves the status as it was.
C1_StatusFollowsStateMachine ==
    [][\A j \in Kept :
         jobs'[j].status # jobs[j].status
            => <<jobs[j].status, jobs'[j].status>> \in StateMachine]_vars

\* C2: terminal states are absorbing: a job that is COMPLETED, FAILED or
\* CANCELLED keeps that status through every later operation.
C2_TerminalIsAbsorbing ==
    [][\A j \in Kept :
         jobs[j].status \in TerminalStatus
            => jobs'[j].status = jobs[j].status]_vars

\* C4: started_at is written at most once, only by a step that takes the job
\* from PENDING or QUEUED into RUNNING, and never changes once set.
C4_StartedAtOnceOnRunningEdge ==
    [][\A j \in Kept :
         jobs'[j].started_at # jobs[j].started_at
            => /\ jobs[j].started_at = NULL
               /\ jobs[j].status \in {PENDING, QUEUED}
               /\ jobs'[j].status = RUNNING]_vars

\* C5: completed_at is written at most once: once set, no later operation
\* overwrites it.
C5_CompletedAtWrittenOnce ==
    [][\A j \in Kept :
         jobs[j].completed_at # NULL
            => jobs'[j].completed_at = jobs[j].completed_at]_vars

\* C6: in every reachable state a job in a terminal status has completed_at set.
C6_TerminalHasCompletedAt ==
    \A j \in JobIds :
        jobs[j].status \in TerminalStatus => jobs[j].completed_at # NULL

\* ------------------------------------------------------ concurrent scheduling
\* Two auto-assign requests over one job, next to the agent's reports and the
\* handlers that change a node's status.  No handler of this specification
\* returns a job to PENDING.
Submit ==
    /\ Len(jobs) < LifeJobs
    /\ CreateJob(NULL, NULL, NULL, NULL)

AgentReport == \E j \in JobIds, r \in AgentReports :
            /\ UpdateJobStatus(j, r.status, r.exit_code, r.error_message)
            /\ UNCHANGED <<http, tasks, agent>>

AdminNode == \E n \in NodeIds :
    \/ \E st \in NodeStatus : UpdateNode(n, TRUE, st, FALSE, TRUE)
    \/ \E act \in BOOLEAN : UpdateNode(n, FALSE, ONLINE, TRUE, act)

Heartbeat == \E n \in NodeIds, st \in NodeStatus :
            NodeHeartbeat(n, st, NULL, NULL, NULL)

NextRace ==
    \/ Submit
    \/ AgentReport
    \/ AdminNode
    \/ Heartbeat
    \/ \E p \in Passes : Scheduler(p)

SpecRace == Init /\ [][NextRace]_vars

\* C3: two concurrent auto-assign requests place a job at most once: no job is
\* written PENDING -> QUEUED by both requests.
C3_PlacedAtMostOnce ==
    \A j \in JobIds : Cardinality({p \in Passes : j \in placed[p]}) <= 1

\* the step in which request p commits a placement
Places(p) == pass[p].pc = "commit" /\ pass'[p].pc # "commit" /\ pass[p].best_node # NULL

\* C7: at the moment assign writes a job to a node, that node is eligible
\* (is_active and online), also when its status changed during the pass.
C7_PlacedOnEligibleNode ==
    [][\A p \in Passes :
         Places(p) => /\ nodes[pass[p].best_node].status = ONLINE
                      /\ nodes[pass[p].best_node].is_active]_vars

\* ------------------------------------------------------- assign, as a function
\* assign_job_to_node is a function of the job, the nodes table and the jobs
\* table.  A registry row is a registered worker with at most one defect: not
\* online, soft-disabled, or one capacity column unknown or below MaxCap.
NodeRows ==
    {FullNode}
    \cup {[FullNode EXCEPT !.status = st] : st \in {OFFLINE, MAINTENANCE}}
    \cup {[FullNode EXCEPT !.is_active = FALSE]}
    \cup {[FullNode EXCEPT !.cpu_count = v] : v \in CapVals}
    \cup {[FullNode EXCEPT !.memory_total_gb = v] : v \in CapVals}
    \cup {[FullNode EXCEPT !.gpu_count = v] : v \in CapVals}

\* one PENDING job with any resource request, pinned or not
InitFilter ==
    /\ nodes \in [1..MaxNodes -> NodeRows]
    /\ jobs \in {<<NewJob(pin, cpu, mem, gpu)>> :
                    pin \in {NULL} \cup (1..MaxNodes),
                    cpu \in CapVals, mem \in CapVals, gpu \in CapVals}
    /\ now = 0
    /\ pass = NoPass
    /\ placed = NonePlaced
    /\ reg = NoCalls
    /\ monitor = Asleep
    /\ http = NoRequest
    /\ tasks = NoTasks
    /\ agent = NoAgent

NextFilter == Scheduler(1)

SpecFilter == InitFilter /\ [][NextFilter]_vars

\* a job asks for GPUs when the request is set and positive
Asks(x) == x # NULL /\ x > 0

\* a memory or CPU limit that is set and not zero
Limits(x) == x # NULL /\ x # 0

\* the node's capacity is known and at least the request
Has(cap, x) == cap # NULL /\ cap >= x

\* what a node must satisfy for a job to be placed on it
Fits(node, job) ==
    /\ node.is_active /\ node.status = ONLINE
    /\ Asks(job.gpu_count) => Has(node.gpu_count, job.gpu_count)
    /\ Limits(job.memory_limit_gb) => Has(node.memory_total_gb, job.memory_limit_gb)
    /\ Limits(job.cpu_limit) => Has(node.cpu_count, job.cpu_limit)

\* C8 as stated: the node assign selected for a job has a known GPU count of
\* at least a positive gpu_count, a known memory of at least a memory_limit_gb
\* that is set, and a known CPU count of at least a cpu_limit that is set.
C8_SetLimitIsMet ==
    \A p \in Passes : \A j \in placed[p] :
        LET node == nodes[jobs[j].node_id]
            job == jobs[j]
        IN /\ Asks(job.gpu_count) => Has(node.gpu_count, job.gpu_count)
           /\ job.memory_limit_gb # NULL => Has(node.memory_total_gb, job.memory_limit_gb)
           /\ job.cpu_limit # NULL => Has(node.cpu_count, job.cpu_limit)

\* C8: the node assign selected for a job has a known GPU count of at least a
\* positive gpu_count, and a known memory and CPU count of at least a
\* memory_limit_gb and a cpu_limit that are set and not zero; a node with an
\* unknown capacity is never selected for a job that asks for that resource.
C8_SelectedNodeHasCapacity ==
    \A p \in Passes : \A j \in placed[p] :
        LET node == nodes[jobs[j].node_id]
            job == jobs[j]
        IN /\ Asks(job.gpu_count) => Has(node.gpu_count, job.gpu_count)
           /\ Limits(job.memory_limit_gb) => Has(node.memory_total_gb, job.memory_limit_gb)
           /\ Limits(job.cpu_limit) => Has(node.cpu_count, job.cpu_limit)

\* a job that asks for a GPU was placed, next to a node that lacks GPUs
C8_Witness ==
    /\ 1 \in placed[1]
    /\ jobs[1].status = QUEUED
    /\ Asks(jobs[1].gpu_count)
    /\ Limits(jobs[1].memory_limit_gb)
    /\ \E n \in NodeIds : ~Has(nodes[n].gpu_count, jobs[1].gpu_count)

NoNodeFor(j) == \A n \in NodeIds : ~Fits(nodes[n], jobs[j])

\* C10: a PENDING job that no node satisfies is left as it is by every step of
\* the pass (status PENDING, node_id unchanged), the pass counts exactly the
\* jobs it placed, and it returns 0 when no job could be placed.
C10_NoCandidateLeavesPending ==
    [][/\ \A j \in Kept : NoNodeFor(j) => jobs'[j] = jobs[j] /\ jobs[j].status = PENDING
       /\ \A p \in Passes :
            /\ pass'[p].assigned_count = Cardinality(placed'[p])
            /\ (pass'[p].pc = "returned" /\ \A j \in Kept : NoNodeFor(j))
                    => pass'[p].assigned_count = 0]_vars

\* the pass has returned over a job that asks for a GPU no node has
C10_Witness ==
    /\ pass[1].pc = "returned"
    /\ pass[1].assigned_count = 0
    /\ NoNodeFor(1)
    /\ Asks(jobs[1].gpu_count)
    /\ jobs[1].status = PENDING
    /\ \E n \in NodeIds : Eligible(nodes[n])

\* ------------------------------------------------------------ load balancing
\* Jobs are submitted, placed by the scheduler, then started and ended by the
\* agents, over registered workers of equal capacity that are online or not.
InitBalance ==
    /\ nodes \in [1..MaxNodes -> {FullNode, [FullNode EXCEPT !.status = OFFLINE]}]
    /\ jobs = <<>>
    /\ now = 0
    /\ pass = NoPass
    /\ placed = NonePlaced
    /\ reg = NoCalls
    /\ monitor = Asleep
    /\ http = NoRequest
    /\ tasks = NoTasks
    /\ agent = NoAgent

SubmitMany ==
    /\ Len(jobs) < BalanceJobs
    /\ CreateJob(NULL, NULL, NULL, NULL)

\* the agent of the job's node reports the start of a job it was given
AgentStarts ==
    \E j \in JobIds :
        /\ jobs[j].status = QUEUED
        /\ UpdateJobStatus(j, RUNNING, NULL, NoMsg)
        /\ UNCHANGED <<http, tasks, agent>>

\* the agent reports the end of a job it runs
AgentEnds ==
    \E j \in JobIds :
        /\ jobs[j].status = RUNNING
        /\ UpdateJobStatus(j, COMPLETED, 0, NoMsg)
        /\ UNCHANGED <<http, tasks, agent>>

NextBalance ==
    \/ SubmitMany
    \/ AgentStarts
    \/ AgentEnds
    \/ Scheduler(1)

SpecBalance == InitBalance /\ [][NextBalance]_vars

\* C9: when assign has read the load of every candidate, the node it selects
\* is a candidate whose count of RUNNING jobs, as read, is minimal.
C9_SelectsLeastLoaded ==
    \A p \in Passes :
        pass[p].pc = "commit" =>
            \E i \in DOMAIN pass[p].seen :
                /\ pass[p].seen[i][1] = pass[p].best_node
                /\ \A k \in DOMAIN pass[p].seen :
                        pass[p].seen[k][2] >= pass[p].seen[i][2]

\* the first candidate runs a job, the second runs none and is selected
C9_Witness ==
    /\ pass[1].pc = "commit"
    /\ Len(pass[1].seen) = 2
    /\ pass[1].seen[1][2] > pass[1].seen[2][2]
    /\ pass[1].best_node = pass[1].seen[2][1]

\* ------------------------------------------------------------- registration
\* POST /nodes/register: register_worker_node calls NodeService.register_node,
\* which reads the row by node_id, awaits, then updates it or inserts one.
NodeKeys == {"worker-1", "worker-2"}

AGENT == "agent"
TokenLife == 365 * 86400           \* expires_delta = timedelta(days=365)

\* create_access_token(data, expires_delta): the signed claims and the expiry
CreateAccessToken(key) ==
    [node_id |-> key, type |-> AGENT, exp |-> now + TokenLife, signed |-> TRUE]

\* select(Node).where(Node.node_id == key): the row's id, or none
FindNode(key) ==
    IF \E n \in NodeIds : nodes[n].node_id = key
    THEN CHOOSE n \in NodeIds : nodes[n].node_id = key
    ELSE NULL

\* variant: the node_id column carries no unique constraint
NodeIdAnyFree(key) == TRUE

\* nodes.node_id is unique: an INSERT of a node_id that is there fails
NodeIdFree(key) == FindNode(key) = NULL

\* system_info keeps the values that are not None; _update_system_info
\* assigns the keys that are left
Supplied(new, old) == IF new # NULL THEN new ELSE old

\* the request is received and the SELECT by node_id has returned
RegisterSelect(c, key, host, port, cpu, mem, gpu) ==
    /\ reg[c].pc # "commit"
    /\ reg' = [reg EXCEPT ![c] =
            [pc |-> "commit", node_id |-> key, host |-> host, port |-> port,
             cpu_count |-> cpu, memory_total_gb |-> mem, gpu_count |-> gpu,
             found |-> FindNode(key),
             loaded |-> IF FindNode(key) # NULL THEN nodes[FindNode(key)] ELSE NoCall,
             overlapped |-> FALSE]]
    /\ UNCHANGED <<nodes, jobs, now, pass, placed, monitor, http, tasks, agent>>

\* the row register_node leaves when it found one: old is the stored row,
\* call.loaded the row as the session read it
RegisterUpdated(old, call) ==
    [old EXCEPT !.host = Flushed(call.host, call.loaded.host, @),
                !.port = Flushed(call.port, call.loaded.port, @),
                !.status = Flushed(ONLINE, call.loaded.status, @),
                !.last_heartbeat = now,
                !.cpu_count =
                    Flushed(Supplied(call.cpu_count, call.loaded.cpu_count),
                            call.loaded.cpu_count, @),
                !.memory_total_gb =
                    Flushed(Supplied(call.memory_total_gb, call.loaded.memory_total_gb),
                            call.loaded.memory_total_gb, @),
                !.gpu_count =
                    Flushed(Supplied(call.gpu_count, call.loaded.gpu_count),
                            call.loaded.gpu_count, @)]

\* the register calls in flight for the node_id that caller c commits have
\* overlapped with it
Overlap(c, done) ==
    [d \in Callers |->
        IF d = c THEN done
        ELSE IF reg[d].pc = "commit" /\ reg[d].node_id = reg[c].node_id
             THEN [reg[d] EXCEPT !.overlapped = TRUE]
             ELSE reg[d]]

\* the row register_node inserts when it found none; is_active defaults to True
RegisterCreated(call) ==
    NodeRow(ONLINE, TRUE, call.cpu_count, call.memory_total_gb, call.gpu_count, now)
        @@ [node_id |-> call.node_id, host |-> call.host, port |-> call.port]

\* db.commit(), then the token is issued; a duplicate INSERT raises and the
\* request fails
RegisterCommit(c) ==
    /\ reg[c].pc = "commit"
    /\ LET call == reg[c]
       IN IF call.found # NULL
          THEN /\ nodes' = [nodes EXCEPT ![call.found] = RegisterUpdated(@, call)]
               /\ reg' = Overlap(c,
                    [pc |-> "done", node_id |-> call.node_id, row |-> call.found,
                     token |-> CreateAccessToken(call.node_id)])
          ELSE IF NodeIdFree(call.node_id)
          THEN /\ Len(nodes) < MaxNodes
               /\ nodes' = Append(nodes, RegisterCreated(call))
               /\ reg' = Overlap(c,
                    [pc |-> "done", node_id |-> call.node_id, row |-> Len(nodes) + 1,
                     token |-> CreateAccessToken(call.node_id)])
          ELSE /\ reg' = [reg EXCEPT ![c] = [pc |-> "failed"]]
               /\ UNCHANGED nodes
    /\ UNCHANGED <<jobs, now, pass, placed, monitor, http, tasks, agent>>

\* what the agents send: where they listen and the capacity they detected
Payloads ==
    {[host |-> "10.0.0.1", port |-> 8000, cpu |-> MaxCap, mem |-> MaxCap, gpu |-> MaxCap],
     [host |-> "10.0.0.2", port |-> 8001, cpu |-> NULL, mem |-> NULL, gpu |-> NULL],
     [host |-> "10.0.0.2", port |-> 8000, cpu |-> 0, mem |-> NULL, gpu |-> MaxCap]}

Register(c) ==
    \/ \E key \in NodeKeys, r \in Payloads :
            RegisterSelect(c, key, r.host, r.port, r.cpu, r.mem, r.gpu)
    \/ RegisterCommit(c)

InitRegister ==
    /\ nodes = <<>>
    /\ jobs = <<>>
    /\ now = 0
    /\ pass = NoPass
    /\ placed = NonePlaced
    /\ reg = NoCalls
    /\ monitor = Asleep
    /\ http = NoRequest
    /\ tasks = NoTasks
    /\ agent = NoAgent

\* concurrent register calls over an empty registry
NextRegister == \E c \in Callers : Register(c)

SpecRegister == InitRegister /\ [][NextRegister]_vars

\* agents that register again while an admin changes their nodes
NextRejoin ==
    \/ Register(1)
    \/ AdminNode

SpecRejoin == InitRegister /\ [][NextRejoin]_vars

\* caller c's register call commits and succeeds in this step
Registers(c) == reg[c].pc = "commit" /\ reg'[c].pc = "done"

OnePerNodeId(table) ==
    \A n, m \in DOMAIN table : table[n].node_id = table[m].node_id => n = m

\* the value of a column of the row the call found, none when it found no row
Previous(call, column) ==
    IF call.found # NULL THEN nodes[call.found][column] ELSE NULL

\* C11 as stated: the registry holds one record per node_id, and after a
\* register call that no other call for the node_id overlapped the record
\* carries the call's host, port and capacity fields.
C11_RecordCarriesLatestCall ==
    [][/\ OnePerNodeId(nodes')
       /\ \A c \in Callers :
            (Registers(c) /\ ~reg[c].overlapped) =>
                LET call == reg[c]
                    row == nodes'[reg'[c].row]
                IN /\ row.node_id = call.node_id
                   /\ row.host = call.host
                   /\ row.port = call.port
                   /\ row.cpu_count = call.cpu_count
                   /\ row.memory_total_gb = call.memory_total_gb
                   /\ row.gpu_count = call.gpu_count]_vars

\* C11: the registry holds one record per node_id, and after a register call
\* that no other call for the node_id overlapped the record carries the call's
\* host and port and every capacity field the call supplied; a capacity field
\* the call left out keeps the value the record had (none in a new record).
C11_RecordCarriesSuppliedFields ==
    [][/\ OnePerNodeId(nodes')
       /\ \A c \in Callers :
            (Registers(c) /\ ~reg[c].overlapped) =>
                LET call == reg[c]
                    row == nodes'[reg'[c].row]
                IN /\ row.node_id = call.node_id
                   /\ row.host = call.host
                   /\ row.port = call.port
                   /\ \A col \in {"cpu_count", "memory_total_gb", "gpu_count"} :
                        row[col] = IF call[col] # NULL THEN call[col]
                                   ELSE Previous(call, col)]_vars

\* two calls for one node_id have succeeded on one record, which carries the
\* later host and the CPU count that only the earlier call supplied
C11_Witness ==
    /\ reg[1].pc = "done" /\ reg[2].pc = "done"
    /\ reg[1].node_id = reg[2].node_id
    /\ reg[1].row = reg[2].row
    /\ Len(nodes) = 1
    /\ nodes[1].host = "10.0.0.2" /\ nodes[1].port = 8001
    /\ nodes[1].cpu_count = MaxCap

\* nothing wrote the row between the call's read and its commit
Undisturbed(call) == call.found # NULL => call.loaded = nodes[call.found]

\* C12: right after a register call succeeds, on a new or an existing record
\* that nothing else wrote meanwhile, the node is active and online, whatever
\* it was before.
C12_RegisteredIsSchedulable ==
    [][\A c \in Callers :
        (Registers(c) /\ Undisturbed(reg[c])) => Eligible(nodes'[reg'[c].row])]_vars

\* ------------------------------------------------------------ node monitor
\* check_offline_nodes(timeout_seconds=90), run by _node_monitor_loop: a
\* SELECT of the stale nodes, an await, then one UPDATE of the rows it named.
NodeTimeout == 90

\* online, active, last heartbeat before the threshold
StaleNodes == {n \in NodeIds : /\ nodes[n].status = ONLINE
                               /\ nodes[n].is_active
                               /\ SqlLt(nodes[n].last_heartbeat, now - NodeTimeout)}

MonitorSelect ==
    /\ monitor.nodes.pc \in {"idle", "returned"}
    /\ monitor' = [monitor EXCEPT !.nodes = [pc |-> "selected", stale_nodes |-> StaleNodes]]
    /\ UNCHANGED <<nodes, jobs, now, pass, placed, reg, http, tasks, agent>>

\* if stale_nodes: UPDATE ... SET status = 'offline', commit; return the count
MonitorUpdate ==
    /\ monitor.nodes.pc = "selected"
    /\ nodes' = [n \in NodeIds |->
            IF n \in monitor.nodes.stale_nodes
            THEN [nodes[n] EXCEPT !.status = OFFLINE]
            ELSE nodes[n]]
    /\ monitor' = [monitor EXCEPT !.nodes =
            [pc |-> "returned", count |-> Cardinality(monitor.nodes.stale_nodes)]]
    /\ UNCHANGED <<jobs, now, pass, placed, reg, http, tasks, agent>>

\* One run of the monitor over every registry of MaxNodes nodes: any status,
\* active or not, the last heartbeat missing or one second older than, equal
\* to, or one second younger than the threshold.
InitOffline ==
    /\ now = NodeTimeout + 1
    /\ nodes \in [1..MaxNodes ->
            {NodeRow(st, act, MaxCap, MaxCap, MaxCap, beat) :
                st \in NodeStatus, act \in BOOLEAN, beat \in {NULL, 0, 1, 2}}]
    /\ jobs = <<>>
    /\ pass = NoPass
    /\ placed = NonePlaced
    /\ reg = NoCalls
    /\ monitor = Asleep
    /\ http = NoRequest
    /\ tasks = NoTasks
    /\ agent = NoAgent

NextOffline ==
    \/ MonitorSelect
    \/ MonitorUpdate
    \/ Heartbeat

SpecOffline == InitOffline /\ [][NextOffline]_vars

\* the last heartbeat is strictly older than the threshold
Silent(node) == node.last_heartbeat # NULL /\ now - node.last_heartbeat > NodeTimeout

\* C13: the step that ends a run of the monitor leaves offline every node that
\* is online with a heartbeat strictly older than the threshold, and leaves
\* every other node as it is.
C13_MonitorMarksSilentNodes ==
    [][(monitor.nodes.pc = "selected" /\ monitor'.nodes.pc = "returned") =>
        \A n \in NodeIds :
            IF nodes[n].status = ONLINE /\ Silent(nodes[n])
            THEN nodes'[n].status = OFFLINE
            ELSE nodes'[n] = nodes[n]]_vars

\* C29: the step in which the monitor applies its update turns offline only
\* nodes whose heartbeat is stale at that moment: a node whose heartbeat arrived
\* after the monitor's select is not turned offline.
C29_OfflineOnlyIfStaleAtWrite ==
    [][(monitor.nodes.pc = "selected" /\ monitor'.nodes.pc = "returned") =>
        \A n \in NodeIds :
            (nodes[n].status # OFFLINE /\ nodes'[n].status = OFFLINE) =>
                Silent(nodes[n])]_vars

\* -------------------------------------------------------------- job monitor
\* One run of the job monitor over every table of MonitorJobs jobs: any
\* status, started_at missing, one second older than the threshold or equal to
\* it; the agents report meanwhile, and a job they start is younger.
InitStale ==
    /\ now = JobTimeout + 1
    /\ nodes = [n \in 1..MaxNodes |-> FullNode]
    /\ jobs \in [1..MonitorJobs ->
            {[NewJob(1, NULL, NULL, NULL) EXCEPT !.status = st, !.started_at = at] :
                st \in JobStatus, at \in {NULL, 0, 1}}]
    /\ pass = NoPass
    /\ placed = NonePlaced
    /\ reg = NoCalls
    /\ monitor = Asleep
    /\ http = NoRequest
    /\ tasks = NoTasks
    /\ agent = NoAgent

NextStale ==
    \/ CheckStaleJobs
    \/ AgentReport

SpecStale == InitStale /\ [][NextStale]_vars

\* RUNNING, and started strictly more than the timeout ago
Overdue(job) ==
    job.status = RUNNING /\ job.started_at # NULL /\ now - job.started_at > JobTimeout

\* no job the run read was written between its read and its commit
AsRead(loaded) == \A j \in DOMAIN loaded : jobs[j] = loaded[j]

\* C14: a run of the job monitor reads exactly the jobs that are RUNNING with
\* started_at older than the timeout; when it commits over the jobs as it read
\* them, each of them is FAILED with the timeout message and a completion
\* time, its other fields kept, and no other job is changed.
C14_MonitorFailsOverdueJobs ==
    [][/\ (monitor.jobs.pc # "selected" /\ monitor'.jobs.pc = "selected") =>
            DOMAIN monitor'.jobs.stale_jobs = {j \in JobIds : Overdue(jobs[j])}
       /\ (monitor.jobs.pc = "selected" /\ monitor'.jobs.pc = "returned") =>
            \A j \in JobIds :
                IF j \in DOMAIN monitor.jobs.stale_jobs
                THEN AsRead(monitor.jobs.stale_jobs) =>
                        jobs'[j] = [jobs[j] EXCEPT !.status = FAILED,
                                                   !.error_message = TimeoutMsg,
                                                   !.completed_at = monitor.jobs.at]
                ELSE jobs'[j] = jobs[j]]_vars

\* a run has failed job 1, started 7201 s ago, and has left job 2 running,
\* started 7200 s ago
C14_Witness ==
    /\ monitor.jobs.pc = "returned" /\ monitor.jobs.count = 1
    /\ jobs[1].status = FAILED /\ jobs[1].error_message = TimeoutMsg
    /\ jobs[1].started_at = 0 /\ jobs[1].completed_at = now
    /\ jobs[2].status = RUNNING /\ jobs[2].started_at = 1

\* -------------------------------------------------------- agent credentials
\* jwt.decode(token, secret_key, algorithms): the signature is the issuer's and
\* the token has not expired
Decodes(token) == token.signed /\ now <= token.exp

\* verify_agent_token: the node of the token, or none
VerifyAgentToken(token) ==
    IF token = NoToken THEN NULL
    ELSE IF ~Decodes(token) THEN NULL
    ELSE IF token.type # AGENT THEN NULL
    ELSE IF token.node_id = "" THEN NULL
    ELSE FindNode(token.node_id)

Unauthorized == 401
Ok == 200

\* require_agent_token: 401 when verify_agent_token returns no node
RequireAgentToken(token) ==
    /\ http' = [token |-> token, node |-> VerifyAgentToken(token),
                code |-> IF VerifyAgentToken(token) = NULL THEN Unauthorized ELSE Ok]
    /\ UNCHANGED <<nodes, jobs, now, pass, placed, reg, monitor, tasks, agent>>

\* the tokens the register calls have returned
Issued == {reg[c].token : c \in {d \in Callers : reg[d].pc = "done"}}

\* what a caller can present: no token, an issued token, one whose signature
\* bytes were altered, one of another kind signed by the same issuer
Presentable ==
    {NoToken} \cup Issued
    \cup {[t EXCEPT !.signed = FALSE] : t \in Issued}
    \cup {[t EXCEPT !.type = "access"] : t \in Issued}

Present == \E token \in Presentable : RequireAgentToken(token)

\* an agent registers under any node_id the schema accepts
Enrol ==
    \/ \E key \in NodeKeys \cup {""} :
            RegisterSelect(1, key, "10.0.0.1", 8000, MaxCap, MaxCap, MaxCap)
    \/ RegisterCommit(1)

\* the clock passes the lifetime of the tokens issued so far
TokensExpire ==
    /\ now <= TokenLife
    /\ now' = now + TokenLife + 1
    /\ UNCHANGED <<nodes, jobs, pass, placed, reg, monitor, http, tasks, agent>>

NextToken ==
    \/ Enrol
    \/ Present
    \/ TokensExpire

SpecToken == InitRegister /\ [][NextToken]_vars

\* the request of this step carried a token of kind agent that the issuer
\* signed and that has not expired
Genuine(token) ==
    token # NoToken /\ token.signed /\ token.type = AGENT /\ now <= token.exp

\* C15: verifying a credential issued at registration yields the node of its
\* node_id, for every node_id; an altered, expired or non-agent credential
\* yields no node.
C15_VerifyReturnsIssuedNode ==
    [][http' # http =>
        IF Genuine(http'.token)
        THEN /\ http'.node \in NodeIds
             /\ nodes[http'.node].node_id = http'.token.node_id
        ELSE http'.node = NULL]_vars

\* ------------------------------------------------------ agent status reports
\* POST /jobs/{job_id}/status: update_job_status declares no token dependency;
\* whatever X-Agent-Token the request carries, the handler calls the service
PostJobStatus(j, r, token) ==
    /\ UpdateJobStatus(j, r.status, r.exit_code, r.error_message)
    /\ http' = [token |-> token, node |-> NULL, code |-> Ok]
    /\ UNCHANGED <<tasks, agent>>

PostStatus == \E j \in JobIds, r \in AgentReports, token \in Presentable :
                PostJobStatus(j, r, token)

\* agents register, a job is submitted and placed, and status reports arrive
\* with any token
NextAgent ==
    \/ Enrol
    \/ Submit
    \/ Scheduler(1)
    \/ PostStatus

SpecAgent == InitRegister /\ [][NextAgent]_vars

\* C16: a status report changes a job only when its request carries a valid
\* agent credential whose node is the node the job is assigned to.
C16_StatusReportNeedsCredential ==
    [][\A j \in Kept :
        (jobs'[j] # jobs[j] /\ pass' = pass) =>
            /\ VerifyAgentToken(http'.token) # NULL
            /\ VerifyAgentToken(http'.token) = jobs[j].node_id]_vars

\* ------------------------------------------------------------------ cancel
Forbidden == 403
BadRequest == 400

\* cancel_job with its answers: 403 to a member who does not own the job, 400
\* for a job in a terminal status, 200 with the job cancelled otherwise
CancelRequest(j, permitted) ==
    /\ j \in JobIds
    /\ \/ /\ ~permitted
          /\ http' = [token |-> NoToken, node |-> NULL, code |-> Forbidden,
                      job |-> j, permitted |-> permitted]
          /\ UNCHANGED <<nodes, jobs, now, pass, placed, reg, monitor, tasks, agent>>
       \/ /\ permitted
          /\ jobs[j].status \in TerminalStatus
          /\ http' = [token |-> NoToken, node |-> NULL, code |-> BadRequest,
                      job |-> j, permitted |-> permitted]
          /\ UNCHANGED <<nodes, jobs, now, pass, placed, reg, monitor, tasks, agent>>
       \/ /\ permitted
          /\ CancelJob(j)
          /\ http' = [token |-> NoToken, node |-> NULL, code |-> Ok,
                      job |-> j, permitted |-> permitted]
          /\ UNCHANGED <<tasks, agent>>

CancelByAnyone == \E j \in JobIds, permitted \in BOOLEAN : CancelRequest(j, permitted)

\* jobs, pinned to a node or not, are moved through every status by status
\* reports and cancelled by their owner, an admin or another member
NextCancel ==
    \/ Create
    \/ Report
    \/ CancelByAnyone

SpecCancel == Init /\ [][NextCancel]_vars

\* this step answers a cancel request of the owner or an admin for job j
Cancels(j) ==
    /\ http' # http
    /\ "job" \in DOMAIN http'
    /\ http'.job = j
    /\ http'.permitted

\* C17: cancel on a COMPLETED, FAILED or CANCELLED job is answered with the
\* error of an invalid transition (400) and leaves the job as it is; cancel on
\* a PENDING job is answered 200 and changes its status to CANCELLED and no
\* other field, node_id included.
C17_CancelRejectsTerminal ==
    [][\A j \in Kept : Cancels(j) =>
        /\ jobs[j].status \in TerminalStatus =>
                http'.code = BadRequest /\ jobs'[j] = jobs[j]
        /\ jobs[j].status = PENDING =>
                /\ http'.code = Ok
                /\ jobs'[j] = [jobs[j] EXCEPT !.status = CANCELLED]]_vars

\* the owner's cancel of a COMPLETED job that has a node was rejected
C17_Witness ==
    /\ "job" \in DOMAIN http
    /\ http.permitted
    /\ http.code = BadRequest
    /\ jobs[http.job].status = COMPLETED
    /\ jobs[http.job].node_id # NULL

\* C18: a job enters CANCELLED only from PENDING or RUNNING, and only by the
\* cancel request of its owner or an admin.
C18_CancelledOnlyByCancel ==
    [][\A j \in Kept :
        (jobs'[j].status = CANCELLED /\ jobs[j].status # CANCELLED) =>
            /\ jobs[j].status \in {PENDING, RUNNING}
            /\ Cancels(j)
            /\ http'.code = Ok]_vars

\* ------------------------------------------------------------- pinned jobs
\* C19: a job created PENDING on the node its caller pinned keeps that node:
\* no step of an auto-assign pass changes a node_id that is set.
C19_PinnedJobKeepsNode ==
    [][\A j \in Kept :
        jobs[j].node_id # NULL => jobs'[j].node_id = jobs[j].node_id]_vars

\* --------------------------------------------------------------- end to end
\* A worker registers, a job that asks for MaxCap GPUs is submitted, an
\* auto-assign pass runs, and the agent reports the job running, then
\* completed with exit code 0, while the clock advances.
SubmitGpuJob ==
    /\ Len(jobs) < LifeJobs
    /\ CreateJob(NULL, NULL, NULL, MaxCap)

\* a worker with MaxCap of every resource registers
RegisterWorker ==
    \/ \E key \in NodeKeys :
            RegisterSelect(1, key, "10.0.0.1", 8000, MaxCap, MaxCap, MaxCap)
    \/ RegisterCommit(1)

NextEndToEnd ==
    \/ RegisterWorker
    \/ SubmitGpuJob
    \/ Scheduler(1)
    \/ AgentStarts
    \/ AgentEnds
    \/ Tick

SpecEndToEnd == InitRegister /\ [][NextEndToEnd]_vars

\* C20: in the scenario the pass that has returned counts the jobs it placed,
\* a placed job is on a registered node and keeps that node, and a job the
\* agent reported completed is COMPLETED with exit code 0 on its node, with
\* started_at and completed_at set and started_at not after completed_at.
C20_EndToEndCompletes ==
    [][\A j \in DOMAIN jobs' :
        /\ pass'[1].pc = "returned" => pass'[1].assigned_count = Cardinality(placed'[1])
        /\ jobs'[j].status # PENDING => jobs'[j].node_id \in DOMAIN nodes'
        /\ (j \in JobIds /\ jobs[j].node_id # NULL) => jobs'[j].node_id = jobs[j].node_id
        /\ jobs'[j].status = COMPLETED =>
                /\ jobs'[j].exit_code = 0
                /\ jobs'[j].started_at # NULL
                /\ jobs'[j].completed_at # NULL
                /\ jobs'[j].started_at <= jobs'[j].completed_at]_vars

\* worker-1 has MaxCap GPUs, the pass returned 1, and the job that asked for
\* them is COMPLETED on it, started before it completed
C20_Witness ==
    /\ Len(jobs) = 1
    /\ pass[1].pc = "returned" /\ pass[1].assigned_count = 1
    /\ jobs[1].status = COMPLETED /\ jobs[1].exit_code = 0
    /\ jobs[1].node_id = 1
    /\ nodes[1].node_id = "worker-1" /\ nodes[1].gpu_count = MaxCap
    /\ jobs[1].started_at # NULL
    /\ jobs[1].started_at < jobs[1].completed_at

\* ---------------------------------------------------------- background loops
\* start_background_tasks: a fresh event, one task per loop, none has run yet
StartBackgroundTasks ==
    /\ tasks = NoTasks
    /\ tasks' = [tasks EXCEPT
            !.event = "clear",
            !.list = TaskOrder,
            !.loop = [L \in Loops |-> [pc |-> "created", cancel |-> FALSE, failed |-> FALSE]]]
    /\ UNCHANGED <<nodes, jobs, now, pass, placed, reg, monitor, http, agent>>

\* the task runs: it has not been cancelled while it was suspended
Runs(L) == tasks.loop[L].pc \in {"created", "checking", "waiting"} /\ ~tasks.loop[L].cancel

\* variant: the while condition does not ask whether the event is set
GoesOnUnlessDropped == tasks.event # "none"

\* the while condition: _shutdown_event and not _shutdown_event.is_set()
GoesOn == tasks.event = "clear"

\* the task starts: the while condition, then the check up to its first await
LoopEnter(L) ==
    /\ Runs(L)
    /\ tasks.loop[L].pc = "created"
    /\ tasks' = [tasks EXCEPT !.loop[L].pc = IF GoesOn THEN "checking" ELSE "done"]
    /\ monitor' = [monitor EXCEPT ![L] = Idle]
    /\ UNCHANGED <<nodes, jobs, now, pass, placed, reg, http, agent>>

\* one step of the check the loop awaits
LoopCheck(L) ==
    /\ Runs(L)
    /\ tasks.loop[L].pc = "checking"
    /\ monitor[L].pc # "returned"
    /\ IF L = "nodes" THEN MonitorSelect \/ MonitorUpdate
                      ELSE StaleSelect \/ StaleCommit

\* variant: an error in the check ends the task
CheckFailsUncaught(L) ==
    /\ Runs(L)
    /\ tasks.loop[L].pc = "checking"
    /\ monitor[L].pc # "returned"
    /\ tasks' = [tasks EXCEPT !.loop[L].pc = "done", !.loop[L].failed = TRUE]
    /\ monitor' = [monitor EXCEPT ![L] = Idle]
    /\ UNCHANGED <<nodes, jobs, now, pass, placed, reg, http, agent>>

\* the statement the check awaits raises (the database is gone): the session
\* is left without a commit, the error is caught and logged, the check is over
CheckFails(L) ==
    /\ Runs(L)
    /\ tasks.loop[L].pc = "checking"
    /\ monitor[L].pc # "returned"
    /\ monitor' = [monitor EXCEPT ![L] = [pc |-> "returned", count |-> 0, error |-> TRUE]]
    /\ UNCHANGED <<nodes, jobs, now, pass, placed, reg, http, tasks, agent>>

\* the check is over: wait_for(_shutdown_event.wait(), timeout=interval)
LoopSleep(L) ==
    /\ Runs(L)
    /\ tasks.loop[L].pc = "checking"
    /\ monitor[L].pc = "returned"
    /\ tasks' = [tasks EXCEPT !.loop[L].pc = "waiting",
                              !.loop[L].failed = "error" \in DOMAIN monitor[L]]
    /\ monitor' = [monitor EXCEPT ![L] = Idle]
    /\ UNCHANGED <<nodes, jobs, now, pass, placed, reg, http, agent>>

\* the wait is over, by the event or by the timeout: the while condition again
LoopWake(L) ==
    /\ Runs(L)
    /\ tasks.loop[L].pc = "waiting"
    /\ tasks' = [tasks EXCEPT !.loop[L].pc = IF GoesOn THEN "checking" ELSE "done"]
    /\ UNCHANGED <<nodes, jobs, now, pass, placed, reg, monitor, http, agent>>

\* the task resumes with CancelledError, which no handler of the loop or of the
\* check catches; a wait whose event is set may also return its result
LoopCancelled(L) ==
    /\ tasks.loop[L].cancel
    /\ \E end \in {"cancelled"} \cup
                   (IF tasks.loop[L].pc = "waiting" /\ tasks.event = "set"
                    THEN {"done"} ELSE {}) :
            tasks' = [tasks EXCEPT !.loop[L].pc = end, !.loop[L].cancel = FALSE]
    /\ monitor' = [monitor EXCEPT ![L] = Idle]
    /\ UNCHANGED <<nodes, jobs, now, pass, placed, reg, http, agent>>

Over(L) == tasks.loop[L].pc \in {"done", "cancelled"}

\* task.cancel(): nothing for a finished task
CancelTask(loop, L) ==
    IF loop[L].pc \in {"done", "cancelled"} THEN loop
    ELSE [loop EXCEPT ![L].cancel = TRUE]

\* stop_background_tasks up to its first await: the event is set, the first
\* task is cancelled; with no task it returns at once
StopBegin ==
    /\ tasks.stop.pc = "idle"
    /\ IF tasks.list = <<>>
       THEN tasks' = [tasks EXCEPT !.event = "none", !.stop = [pc |-> "returned"]]
       ELSE tasks' = [tasks EXCEPT
                !.event = IF @ = "none" THEN @ ELSE "set",
                !.loop = CancelTask(@, tasks.list[1]),
                !.stop = [pc |-> "awaiting", i |-> 1]]
    /\ UNCHANGED <<nodes, jobs, now, pass, placed, reg, monitor, http, agent>>

\* await task returns: the next task is cancelled and awaited; after the last
\* one the list is emptied and the event dropped
StopJoin ==
    /\ tasks.stop.pc = "awaiting"
    /\ Over(tasks.list[tasks.stop.i])
    /\ IF tasks.stop.i < Len(tasks.list)
       THEN tasks' = [tasks EXCEPT
                !.loop = CancelTask(@, tasks.list[tasks.stop.i + 1]),
                !.stop.i = @ + 1]
       ELSE tasks' = [tasks EXCEPT !.list = <<>>, !.event = "none",
                                   !.stop = [pc |-> "returned"]]
    /\ UNCHANGED <<nodes, jobs, now, pass, placed, reg, monitor, http, agent>>

StopBackgroundTasks == StopBegin \/ StopJoin

\* what a loop does when it is scheduled
LoopStep(L) == LoopEnter(L) \/ LoopCheck(L) \/ LoopSleep(L) \/ LoopWake(L) \/ LoopCancelled(L)

\* The master at a moment when every node is silent and every job overdue, its
\* monitors not yet started.
InitLoops ==
    /\ now = JobTimeout + 1
    /\ nodes = [n \in 1..MaxNodes |-> FullNode]
    /\ jobs = [j \in 1..LifeJobs |->
            [NewJob(1, NULL, NULL, NULL) EXCEPT !.status = RUNNING, !.started_at = 0]]
    /\ pass = NoPass
    /\ placed = NonePlaced
    /\ reg = NoCalls
    /\ monitor = Asleep
    /\ http = NoRequest
    /\ tasks = NoTasks
    /\ agent = NoAgent

NextLoops ==
    \/ StartBackgroundTasks
    \/ \E L \in Loops : LoopStep(L) \/ CheckFails(L)
    \/ StopBackgroundTasks

SpecLoops == InitLoops /\ [][NextLoops]_vars

\* the event loop runs every task that is ready, timers fire, the database
\* answers or fails, and the application starts its background tasks
SpecLoopsFair ==
    /\ SpecLoops
    /\ WF_vars(StartBackgroundTasks)
    /\ \A L \in Loops : WF_vars(LoopStep(L))
    /\ WF_vars(StopJoin)

StopGiven == tasks.stop.pc # "idle"

\* the loop is at the start of an iteration
TickBegins(L) == tasks.loop[L].pc = "checking" /\ monitor[L].pc = "idle"

\* the check of this iteration has raised
Raised(L) == tasks.loop[L].pc = "checking" /\ "error" \in DOMAIN monitor[L]

Waiting(L) == tasks.loop[L].pc = "waiting"

\* C21: in each monitor loop, unless stop is invoked, an iteration whose check
\* raised is followed by the start of the next iteration, every iteration that
\* starts reaches its wait, and every wait is followed by the next iteration.
C21_LoopSurvivesError ==
    \A L \in Loops :
        /\ Raised(L) ~> (TickBegins(L) \/ StopGiven)
        /\ TickBegins(L) ~> (Waiting(L) \/ StopGiven)
        /\ Waiting(L) ~> (TickBegins(L) \/ StopGiven)

\* both loops run a check after an iteration that raised
C21_Witness ==
    /\ ~StopGiven
    /\ \A L \in Loops :
        /\ tasks.loop[L].failed
        /\ tasks.loop[L].pc = "checking"
        /\ monitor[L].pc = "selected"

\* C22: once stop_background_tasks is invoked no loop starts an iteration; it
\* returns, and when it has returned every loop task is over and the task list
\* is empty.
C22_StopEndsLoops ==
    /\ [][StopGiven => \A L \in Loops :
            ~(tasks.loop[L].pc # "checking" /\ tasks'.loop[L].pc = "checking")]_vars
    /\ [](tasks.stop.pc = "returned" =>
            /\ tasks.list = <<>>
            /\ \A L \in Loops : tasks.loop[L].pc \in {"none", "done", "cancelled"})
    /\ (tasks.stop.pc = "awaiting") ~> (tasks.stop.pc = "returned")

\* stop has returned: the loop that slept left by the event, the loop that
\* was cancelled in the middle of its check wrote nothing more
C22_Witness ==
    /\ tasks.stop.pc = "returned"
    /\ tasks.list = <<>>
    /\ tasks.loop["nodes"].pc = "cancelled"
    /\ tasks.loop["jobs"].pc = "done"
    /\ \E n \in NodeIds : nodes[n].status = ONLINE

\* ------------------------------------------------------- stale pending list
\* jobs are submitted, pinned or not, run by the agents and cancelled by their
\* owner while an auto-assign pass runs
NextWithdraw ==
    \/ Create
    \/ Cancel
    \/ Scheduler(1)
    \/ AgentStarts
    \/ AgentEnds
    \/ Tick

SpecWithdraw == Init /\ [][NextWithdraw]_vars

\* C23: a step of an auto-assign pass leaves every job that is not PENDING when
\* the step is taken, a cancelled one for example, as it is: status, node_id
\* and every other field.
C23_SchedulerWritesOnlyPending ==
    [][\A j \in Kept :
        (pass' # pass /\ jobs[j].status # PENDING) => jobs'[j] = jobs[j]]_vars

\* ------------------------------------------------------------ worker agent
\* agent.py: one process per node. MasterClient holds the token and the node id,
\* JobExecutor the child processes; agent_main registers and then loops over
\* heartbeat, poll, execute and report, one after the other.
HeartbeatInterval == 30
ChildTimeout == 3600
MaxAttempts == 5
QueueLimit == 10

\* HTTP status codes of the answers; NoAnswer is a request that raised
Created == 201
NotFound == 404
NotAllowed == 405
Unprocessable == 422
NoAnswer == 0

\* the exit code -1 the executor returns for a timeout or a failed start
MinusOne == 0 - 2
StderrMsg == "error"
AgentTimeoutMsg == "Job timed out after Nones"
StartErrorMsg == "start failed"

\* the node this agent runs on
AgentNode == 1

\* data.get(key)
Get(body, key, none) == IF key \in DOMAIN body THEN body[key] ELSE none

\* the answers to POST /nodes/register: what register_worker_node returns (201,
\* the token under "token", the node under "node"), what the agent reads (200,
\* "agent_token", "id"), the 422 of a payload without node_id and host, and no
\* answer
RegisterAnswers ==
    {[code |-> Created, body |-> [token |-> CreateAccessToken("worker-1"),
                                  node |-> [id |-> AgentNode]]],
     [code |-> Ok, body |-> [agent_token |-> CreateAccessToken("worker-1"),
                             id |-> AgentNode]],
     [code |-> Unprocessable, body |-> [detail |-> "missing"]],
     [code |-> NoAnswer, body |-> [detail |-> "none"]]}

\* the master has taken the registration
Accepted(answer) == answer.code \in {Ok, Created} /\ "detail" \notin DOMAIN answer.body

\* the token the master has issued in this answer
IssuedIn(answer) == Get(answer.body, "token", Get(answer.body, "agent_token", NoToken))

HeartbeatAnswers == {Ok, Unauthorized, NotFound, NoAnswer}
ReportAnswers == {Ok, NotAllowed, NoAnswer}

\* MasterClient.register returns True: a 200 that carries "agent_token"
RegisterOk(answer) ==
    answer.code = Ok /\ Get(answer.body, "agent_token", NoToken) # NoToken

\* MasterClient.register: the client after the answer
ClientRegister(client, answer) ==
    IF answer.code = Ok
    THEN LET token == Get(answer.body, "agent_token", NoToken)
         IN [client EXCEPT
                !.token = token,
                !.node_id = Get(answer.body, "id", NULL),
                !.token_file = IF token # NoToken THEN token ELSE @,
                !.answer = answer]
    ELSE [client EXCEPT !.answer = answer]

\* the agent as installed: a token file or none, no process
Installed(file) ==
    [pc |-> "none", token |-> NoToken, node_id |-> NULL, token_file |-> file,
     attempt |-> 0, answer |-> [code |-> NoAnswer, body |-> [detail |-> "none"]],
     queue |-> <<>>, job |-> NULL, outcome |-> "none", sent |-> <<>>, lost |-> {},
     running_jobs |-> {}, procs |-> <<>>, beat |-> FALSE]

InLoop == agent.pc \in {"heartbeat", "reregister", "poll", "dispatch", "running",
                        "prepare", "child", "report", "sleep"}

\* the steps of the agent that leave the master as it is
MasterSame == UNCHANGED <<nodes, jobs, now, pass, placed, reg, monitor, http, tasks>>

\* agent_main up to the loop or the first register call: load_token
AgentBoot ==
    /\ agent.pc = "none"
    /\ agent' = [agent EXCEPT
            !.token = agent.token_file,
            !.pc = IF agent.token_file # NoToken THEN "heartbeat" ELSE "register"]
    /\ MasterSame

\* one of the five initial attempts; after the fifth failure sys.exit(1)
AgentRegister ==
    /\ agent.pc = "register"
    /\ \E answer \in RegisterAnswers :
            agent' = [ClientRegister(agent, answer) EXCEPT
                !.attempt = IF RegisterOk(answer) THEN @ ELSE @ + 1,
                !.pc = IF RegisterOk(answer) THEN "heartbeat"
                       ELSE IF agent.attempt + 1 = MaxAttempts THEN "exited"
                       ELSE "register"]
    /\ MasterSame

\* node_heartbeat on the row of the node
HeartbeatRow(row, status, cpu, mem, gpu) ==
    [row EXCEPT !.status = status,
                !.last_heartbeat = now,
                !.cpu_count = IF cpu # NULL THEN cpu ELSE @,
                !.memory_total_gb = IF mem # NULL THEN mem ELSE @,
                !.gpu_count = IF gpu # NULL THEN gpu ELSE @]

\* MasterClient.heartbeat: nothing is sent without a node id; 200 is a
\* heartbeat the master has stored, 401 leads to register
AgentHeartbeat ==
    /\ agent.pc = "heartbeat"
    /\ IF agent.node_id = NULL
       THEN /\ agent' = [agent EXCEPT !.pc = "poll"]
            /\ MasterSame
       ELSE \E code \in HeartbeatAnswers :
            /\ agent' = [agent EXCEPT
                    !.pc = IF code = Unauthorized THEN "reregister" ELSE "poll",
                    !.answer = [code |-> code, body |-> [detail |-> "heartbeat"]],
                    !.beat = TRUE]
            /\ IF code = Ok /\ agent.node_id \in NodeIds
               THEN nodes' = [nodes EXCEPT ![agent.node_id] =
                                HeartbeatRow(@, ONLINE, MaxCap, MaxCap, 0)]
               ELSE UNCHANGED nodes
            /\ UNCHANGED <<jobs, now, pass, placed, reg, monitor, http, tasks>>

\* return await self.register() inside heartbeat
AgentReregister ==
    /\ agent.pc = "reregister"
    /\ \E answer \in RegisterAnswers :
            agent' = [ClientRegister(agent, answer) EXCEPT !.pc = "poll"]
    /\ MasterSame

\* get_pending_jobs_for_node: the QUEUED jobs of the node, oldest first
QueueFor(n) ==
    LET queued == {j \in JobIds : jobs[j].node_id = n /\ jobs[j].status = QUEUED}
        sorted == Ascending(queued)
    IN  IF Len(sorted) <= QueueLimit THEN sorted ELSE SubSeq(sorted, 1, QueueLimit)

\* MasterClient.fetch_pending_jobs: the queue of the node, or [] for any
\* answer but 200
AgentPoll ==
    /\ agent.pc = "poll"
    /\ \E code \in {Ok, Unauthorized, NoAnswer} :
            agent' = [agent EXCEPT
                !.pc = "dispatch",
                !.queue = IF code = Ok THEN QueueFor(AgentNode) ELSE <<>>]
    /\ MasterSame

\* for job in jobs: the next job, or the end of the iteration
AgentDispatch ==
    /\ agent.pc = "dispatch"
    /\ IF agent.queue = <<>>
       THEN agent' = [agent EXCEPT !.pc = "sleep"]
       ELSE agent' = [agent EXCEPT !.pc = "running",
                                   !.job = Head(agent.queue),
                                   !.queue = Tail(agent.queue),
                                   !.outcome = "none",
                                   !.sent = <<>>]
    /\ MasterSame

\* the reports that failed, after one about job j with this status was sent
Owed(lost, j, status, code) ==
    LET others == {l \in lost : ~(l.job = j /\ l.status = status)}
    IN  IF code = Ok THEN others
        ELSE others \cup {[job |-> j, status |-> status, old |-> FALSE]}

\* MasterClient.update_job_status: the master applies a report it answers
\* with 200; the agent goes on whatever the answer
SendReport(j, status, exit_code, error_message, code) ==
    IF code = Ok
    THEN UpdateJobStatus(j, status, exit_code, error_message)
    ELSE UNCHANGED <<nodes, jobs, now, pass, placed, reg, monitor>>

\* JobExecutor.execute: await self.client.update_job_status(job.id, "running")
AgentReportRunning ==
    /\ agent.pc = "running"
    /\ \E code \in ReportAnswers :
        /\ SendReport(agent.job, RUNNING, NULL, NoMsg, code)
        /\ agent' = [agent EXCEPT
                !.pc = "prepare",
                !.sent = Append(@, RUNNING),
                !.lost = Owed(@, agent.job, RUNNING, code)]
    /\ UNCHANGED <<http, tasks>>

\* os.makedirs and the start of the child: makedirs raises (the error leaves
\* execute and ends the iteration), the start raises (-1 and the error), or the
\* child runs and is tracked in running_jobs
AgentSpawn ==
    /\ agent.pc = "prepare"
    /\ \/ agent' = [agent EXCEPT !.pc = "sleep", !.outcome = "nodir",
                                  !.job = NULL, !.queue = <<>>]
       \/ agent' = [agent EXCEPT !.pc = "report", !.outcome = "nostart"]
       \/ /\ Len(agent.procs) < MaxRuns
          /\ agent' = [agent EXCEPT
                !.pc = "child",
                !.procs = Append(@, [job |-> agent.job, started |-> now, alive |-> TRUE]),
                !.running_jobs = @ \cup {agent.job},
                !.beat = FALSE]
    /\ MasterSame

\* the child the agent waits for is the last one it started
Child == Len(agent.procs)

\* time passes while the agent waits for the child
ChildRuns ==
    /\ agent.pc = "child"
    /\ Tick

\* proc.communicate() returns: the child has exited with this code
ChildExits ==
    /\ agent.pc = "child"
    /\ agent.procs[Child].alive
    /\ \E code \in {0, 1} :
            agent' = [agent EXCEPT
                !.pc = "report",
                !.outcome = IF code = 0 THEN "exit0" ELSE "exit1",
                !.procs[Child].alive = FALSE,
                !.running_jobs = @ \ {agent.job}]
    /\ MasterSame

\* wait_for raises TimeoutError: communicate() is cancelled, the job id is
\* popped, execute returns -1 and the message; nothing signals the child
ChildTimesOut ==
    /\ agent.pc = "child"
    /\ now - agent.procs[Child].started >= ChildTimeout
    /\ agent' = [agent EXCEPT
            !.pc = "report",
            !.outcome = "timeout",
            !.running_jobs = @ \ {agent.job}]
    /\ MasterSame

\* a child the agent no longer waits for ends by itself
OrphanExits ==
    /\ \E i \in DOMAIN agent.procs :
        /\ agent.procs[i].alive
        /\ ~(agent.pc = "child" /\ i = Child)
        /\ agent' = [agent EXCEPT !.procs[i].alive = FALSE]
    /\ MasterSame

\* what agent_main reports for the result of execute
FinalReport(outcome) ==
    IF outcome = "exit0"
    THEN [status |-> COMPLETED, exit_code |-> 0, error_message |-> NoMsg]
    ELSE [status |-> FAILED,
          exit_code |-> IF outcome = "exit1" THEN 1 ELSE MinusOne,
          error_message |-> IF outcome = "exit1" THEN StderrMsg
                            ELSE IF outcome = "timeout" THEN AgentTimeoutMsg
                            ELSE StartErrorMsg]

\* agent_main: completed for exit code 0, failed otherwise; then the next job
AgentReportEnd ==
    /\ agent.pc = "report"
    /\ \E code \in ReportAnswers :
        LET r == FinalReport(agent.outcome)
        IN  /\ SendReport(agent.job, r.status, r.exit_code, r.error_message, code)
            /\ agent' = [agent EXCEPT
                    !.pc = "dispatch",
                        !.sent = Append(@, r.status),
                    !.lost = Owed(@, agent.job, r.status, code),
                    !.job = NULL]
    /\ UNCHANGED <<http, tasks>>

\* asyncio.sleep(job_poll_interval), then the next iteration
AgentSleep ==
    /\ agent.pc = "sleep"
    /\ agent' = [agent EXCEPT !.pc = "heartbeat",
                              !.lost = {[l EXCEPT !.old = TRUE] : l \in @}]
    /\ MasterSame

\* The agent of node 1 with or without a token file; the jobs of the master are
\* QUEUED on node 1.
InitWorker ==
    /\ now = 0
    /\ nodes = [n \in 1..MaxNodes |-> FullNode]
    /\ jobs = [j \in 1..LifeJobs |->
            [NewJob(NULL, NULL, NULL, NULL) EXCEPT !.status = QUEUED, !.node_id = AgentNode]]
    /\ pass = NoPass
    /\ placed = NonePlaced
    /\ reg = NoCalls
    /\ monitor = Asleep
    /\ http = NoRequest
    /\ tasks = NoTasks
    /\ agent \in {Installed(NoToken), Installed(CreateAccessToken("worker-1"))}

NextWorker ==
    \/ AgentBoot
    \/ AgentRegister
    \/ AgentHeartbeat
    \/ AgentReregister
    \/ AgentPoll
    \/ AgentDispatch
    \/ AgentReportRunning
    \/ AgentSpawn
    \/ ChildExits
    \/ ChildTimesOut
    \/ OrphanExits
    \/ AgentReportEnd
    \/ AgentSleep
    \/ ChildRuns

SpecWorker == InitWorker /\ [][NextWorker]_vars

\* C24: a register call of an agent without a credential that the master
\* accepts leaves the agent in its loop with the token the master issued, in
\* memory and in the token file; and the agent is in the loop only with a token.
C24_AcceptedRegisterGivesCredential ==
    [][/\ (agent.pc = "register" /\ agent' # agent /\ Accepted(agent'.answer)) =>
            /\ agent'.pc = "heartbeat"
            /\ agent'.token = IssuedIn(agent'.answer)
            /\ agent'.token_file = IssuedIn(agent'.answer)
       /\ InLoop' => agent'.token # NoToken]_vars

\* C25: a heartbeat answered 401 is followed by a register call before the
\* poll; nothing in the loop ends the process; and a COMPLETED or FAILED report
\* that failed in an earlier iteration has been sent again when the next
\* iteration ends.
C25_RejectedCredentialNotFatal ==
    [][/\ (agent.pc = "heartbeat" /\ agent'.pc # "heartbeat"
            /\ agent.node_id # NULL /\ agent'.answer.code = Unauthorized) =>
                agent'.pc = "reregister"
       /\ InLoop => agent'.pc # "exited"
       /\ (agent.pc # "sleep" /\ agent'.pc = "sleep") =>
                \A l \in agent'.lost : l.status \in TerminalStatus => ~l.old]_vars

\* C26: when the agent is done with a job it has sent two reports about it:
\* RUNNING first, then COMPLETED if the child exited with 0 and FAILED if it
\* exited with another code, timed out or did not start.
C26_RunningThenOneTerminal ==
    [][(agent.job # NULL /\ agent'.job = NULL) =>
        /\ Len(agent'.sent) = 2
        /\ agent'.sent[1] = RUNNING
        /\ agent'.sent[2] = IF agent'.outcome = "exit0" THEN COMPLETED ELSE FAILED]_vars

\* C27: when the agent has reported a job whose child timed out, the report is
\* FAILED, the job id is no longer in running_jobs and no child process of the
\* job is alive.
C27_TimeoutKillsChild ==
    [][(agent.pc = "report" /\ agent.outcome = "timeout" /\ agent'.pc # "report") =>
        /\ agent'.sent[Len(agent'.sent)] = FAILED
        /\ agent.job \notin agent'.running_jobs
        /\ \A i \in DOMAIN agent'.procs :
                agent'.procs[i].job = agent.job => ~agent'.procs[i].alive]_vars

\* C28: when the agent stops waiting for a child that ran for a heartbeat
\* interval or longer, it has sent a heartbeat since the child started.
C28_HeartbeatDuringExecution ==
    [][(agent.pc = "child" /\ agent'.pc # "child"
        /\ now - agent.procs[Child].started >= HeartbeatInterval) =>
            agent.beat]_vars

\* C30: the agent starts at most one child process for a job.
C30_ExecutedAtMostOnce ==
    \A j \in JobIds :
        Cardinality({i \in DOMAIN agent.procs : agent.procs[i].job = j}) <= 1
====
